---- MODULE Spec2Model ----
(***************************************************************************)
(* Model of package txnode (src/txnode.go): a TxNode threads one lazily    *)
(* begun *sql.Tx through a chain of SQL operations.                        *)
(*                                                                         *)
(* The node's three fields are the variables isStart, tx and isEnd.  The   *)
(* database/sql collaborators (sql.DB, sql.Tx and slog.Logger) are the     *)
(* environment: every call the node makes on them is recorded in           *)
(* last.calls / last.logs and counted in n, and their outcome is an input  *)
(* of the action that makes the call.                                      *)
(***************************************************************************)
EXTENDS Integers, Sequences, FiniteSets, TLC

\* ------------------------------------------------------------------ bounds
MaxOps == 5        \* calls made on the node in one behaviour of Spec
MaxChain == 3      \* operations in one chain of ChainSpec
MaxCallers == 2    \* goroutines calling PrepareQuery on one node in RaceSpec

\* ------------------------------------------------------------------ errors
\* An error value: its message (a sequence of text fragments) and the
\* message of the error it wraps (<<>> when it wraps nothing).
NilErr == [msg |-> <<>>, unwrap |-> <<>>]

NewError(text) == [msg |-> <<text>>, unwrap |-> <<>>]

ErrTransactionArgsMismatch == NewError("transaction args mismatch")

\* database/sql's sentinel for a call on a finished transaction
ErrTxDone == NewError("sql: transaction has already been committed or rolled back")

\* errors the database driver may answer any call with
DriverErrs == {NewError("driver: bad connection"), NewError("driver: deadlock detected")}

\* outcome of one database call: success or a driver error
Outcomes == {NilErr} \cup DriverErrs

\* operation names and causes handed to RollbackTransactionAndLog
OpNames == {"opX", "opY"}
Causes == DriverErrs \cup {ErrTransactionArgsMismatch}

\* %v of an error
ErrorText(e) == IF e = NilErr THEN <<"<nil>">> ELSE e.msg

\* fmt.Sprintf("%s: rollback transaction: %v", op, rollbackErr)
RollbackMsg(op, rollbackErr) == <<op, ": rollback transaction: ">> \o ErrorText(rollbackErr)

\* fmt.Sprintf("%s: %v", op, err)
CauseMsg(op, err) == <<op, ": ">> \o ErrorText(err)

\* fmt.Errorf("%s: %w", op, err)
WrapErr(op, err) == [msg |-> <<op, ": ">> \o ErrorText(err), unwrap |-> err.msg]

\* ------------------------------------------------------------------ state
VARIABLES
  origin,    \* how the node came to be: "New", "nil" (nil *TxNode), "zero" (TxNode{})
  isStart,   \* TxNode.isStart
  tx,        \* TxNode.tx: 0 is nil, h > 0 the handle BeginTx returned
  isEnd,     \* TxNode.isEnd
  dbTx,      \* the transactions BeginTx has handed out: dbTx[h] is "open" or "done"
  n,         \* how many times each database call has been made
  last,      \* the last call on the node: its results, database calls and log entries
  panicked,  \* a nil-pointer dereference has ended the program
  steps,     \* calls made on the node so far
  pc, idx, chainLen, endIdx, failedAt,  \* the caller's position in a chain (ChainSpec)
  gs         \* each goroutine's position inside PrepareQuery (RaceSpec)

node == <<isStart, tx, isEnd>>
chain == <<pc, idx, chainLen, endIdx, failedAt>>
vars == <<origin, isStart, tx, isEnd, dbTx, n, last, panicked, steps, pc, idx, chainLen, endIdx, failedAt, gs>>

Callers == 1..MaxCallers

\* a goroutine that has not called PrepareQuery yet: h is its local tx,
\* overlapped whether its call began while another call was running
IdleCaller == [pc |-> "idle", h |-> 0, overlapped |-> FALSE]

NoStmt == [ok |-> FALSE, tx |-> 0]
\* a statement prepared on transaction h (h = 0: on the database handle itself)
Stmt(h) == [ok |-> TRUE, tx |-> h]

Call(fn, h, err) == [fn |-> fn, h |-> h, err |-> err]

\* one thing a method does to its collaborators: a database call or a log entry
Effect(kind, fn, text) == [kind |-> kind, fn |-> fn, text |-> text]

RECURSIVE CallEffects(_)
CallEffects(calls) ==
  IF calls = <<>> THEN <<>>
  ELSE <<Effect("call", Head(calls).fn, <<>>)>> \o CallEffects(Tail(calls))

RECURSIVE LogEffects(_)
LogEffects(logs) ==
  IF logs = <<>> THEN <<>>
  ELSE <<Effect("log", "Logger.Error", Head(logs))>> \o LogEffects(Tail(logs))

\* events: the database calls and log entries of the call in program order;
\* a method that logs nothing has its database calls as events
Result(op, stmt, err, calls, logs) ==
  [op |-> op, stmt |-> stmt, err |-> err, calls |-> calls, logs |-> logs,
   events |-> CallEffects(calls)]

RECURSIVE CountFn(_, _)
CountFn(calls, fn) ==
  IF calls = <<>> THEN 0
  ELSE (IF Head(calls).fn = fn THEN 1 ELSE 0) + CountFn(Tail(calls), fn)

\* the counters after the database calls of one operation
Counted(calls) ==
  [begin     |-> n.begin     + CountFn(calls, "DB.BeginTx"),
   dbPrepare |-> n.dbPrepare + CountFn(calls, "DB.PrepareContext"),
   txPrepare |-> n.txPrepare + CountFn(calls, "Tx.PrepareContext"),
   commit    |-> n.commit    + CountFn(calls, "Tx.Commit"),
   rollback  |-> n.rollback  + CountFn(calls, "Tx.Rollback")]

\* ------------------------------------------------------- database/sql
\* What a call on transaction h answers: ErrTxDone once the transaction
\* has been committed or rolled back, the driver's outcome otherwise.
TxAnswer(txs, h, outcome) == IF txs[h] = "done" THEN ErrTxDone ELSE outcome

\* Commit and Rollback finish the transaction whatever the driver answers.
Finish(txs, h) == [txs EXCEPT ![h] = "done"]

\* ------------------------------------------------------------------ New
New ==
  /\ isStart = TRUE
  /\ tx = 0
  /\ isEnd = FALSE

ZeroNode ==
  /\ isStart = FALSE
  /\ tx = 0
  /\ isEnd = FALSE

InitCommon ==
  /\ dbTx = <<>>
  /\ n = [begin |-> 0, dbPrepare |-> 0, txPrepare |-> 0, commit |-> 0, rollback |-> 0]
  /\ last = Result("New", NoStmt, NilErr, <<>>, <<>>)
  /\ panicked = FALSE
  /\ steps = 0

Init ==
  /\ origin \in {"New", "nil", "zero"}
  /\ IF origin = "New" THEN New ELSE ZeroNode
  /\ InitCommon
  /\ pc = "idle" /\ idx = 0 /\ chainLen = 0 /\ endIdx = 0 /\ failedAt = 0
  /\ gs = [g \in Callers |-> IdleCaller]

\* ------------------------------------------------------------ operations
\* Each Do* is one whole method call on the node.

DoUnsetEnd ==
  IF origin = "nil"
  THEN /\ panicked' = TRUE
       /\ last' = Result("UnsetEnd", NoStmt, NilErr, <<>>, <<>>)
       /\ UNCHANGED <<node, dbTx, n>>
  ELSE /\ isEnd' = FALSE
       /\ last' = Result("UnsetEnd", NoStmt, NilErr, <<>>, <<>>)
       /\ UNCHANGED <<isStart, tx, dbTx, n, panicked>>

\* SetEnd assigning false, as UnsetEnd does
DoSetEnd_Clears ==
  IF origin = "nil"
  THEN /\ panicked' = TRUE
       /\ last' = Result("SetEnd", NoStmt, NilErr, <<>>, <<>>)
       /\ UNCHANGED <<node, dbTx, n>>
  ELSE /\ isEnd' = FALSE
       /\ last' = Result("SetEnd", NoStmt, NilErr, <<>>, <<>>)
       /\ UNCHANGED <<isStart, tx, dbTx, n, panicked>>

DoSetEnd ==
  IF origin = "nil"
  THEN /\ panicked' = TRUE
       /\ last' = Result("SetEnd", NoStmt, NilErr, <<>>, <<>>)
       /\ UNCHANGED <<node, dbTx, n>>
  ELSE /\ isEnd' = TRUE
       /\ last' = Result("SetEnd", NoStmt, NilErr, <<>>, <<>>)
       /\ UNCHANGED <<isStart, tx, dbTx, n, panicked>>

\* PrepareDirect with the nil check lost: a transaction is begun for the statement
PrepareDirect_Begins(prepErr) ==
  LET h == Len(dbTx) + 1
      calls == <<Call("DB.BeginTx", 0, NilErr), Call("Tx.PrepareContext", h, prepErr)>>
  IN /\ last' = Result("PrepareQuery",
                       IF prepErr = NilErr THEN Stmt(h) ELSE NoStmt,
                       prepErr, calls, <<>>)
     /\ dbTx' = Append(dbTx, "open")
     /\ n' = Counted(calls)
     /\ UNCHANGED <<node, panicked>>

\* txn == nil: prepare on the database handle itself
PrepareDirect(prepErr) ==
  LET calls == <<Call("DB.PrepareContext", 0, prepErr)>>
  IN /\ last' = Result("PrepareQuery",
                       IF prepErr = NilErr THEN Stmt(0) ELSE NoStmt,
                       prepErr, calls, <<>>)
     /\ n' = Counted(calls)
     /\ UNCHANGED <<node, dbTx, panicked>>

\* BeginTxFailed returning the package's own error in place of BeginTx's
BeginTxFailed_WrongErr(beginErr) ==
  LET calls == <<Call("DB.BeginTx", 0, beginErr)>>
  IN /\ last' = Result("PrepareQuery", NoStmt, ErrTransactionArgsMismatch, calls, <<>>)
     /\ n' = Counted(calls)
     /\ UNCHANGED <<node, dbTx, panicked>>

\* BeginTxFailed with isStart cleared before the error check
BeginTxFailed_FlipsStart(beginErr) ==
  LET calls == <<Call("DB.BeginTx", 0, beginErr)>>
  IN /\ last' = Result("PrepareQuery", NoStmt, beginErr, calls, <<>>)
     /\ n' = Counted(calls)
     /\ isStart' = FALSE
     /\ UNCHANGED <<tx, isEnd, dbTx, panicked>>

\* txn.isStart, BeginTx answered beginErr # nil
BeginTxFailed(beginErr) ==
  LET calls == <<Call("DB.BeginTx", 0, beginErr)>>
  IN /\ last' = Result("PrepareQuery", NoStmt, beginErr, calls, <<>>)
     /\ n' = Counted(calls)
     /\ UNCHANGED <<node, dbTx, panicked>>

\* StoreTx without the assignment to tx
StoreTx_NoTx(h) ==
  /\ isStart' = FALSE
  /\ UNCHANGED <<tx, isEnd>>

\* StoreTx without the assignment to isStart
StoreTx_KeepStart(h) ==
  /\ tx' = h
  /\ UNCHANGED <<isStart, isEnd>>

\* txn.isStart = false; txn.tx = tx
StoreTx(h) ==
  /\ isStart' = FALSE
  /\ tx' = h
  /\ UNCHANGED isEnd

\* BeginTxAndPrepare storing the transaction only when the statement was prepared
BeginTxAndPrepare_StoreOnSuccess(prepErr) ==
  LET h == Len(dbTx) + 1
      txs == Append(dbTx, "open")
      err == TxAnswer(txs, h, prepErr)
      calls == <<Call("DB.BeginTx", 0, NilErr), Call("Tx.PrepareContext", h, err)>>
  IN /\ IF err = NilErr THEN StoreTx(h) ELSE UNCHANGED node
     /\ dbTx' = txs
     /\ last' = Result("PrepareQuery",
                       IF err = NilErr THEN Stmt(h) ELSE NoStmt,
                       err, calls, <<>>)
     /\ n' = Counted(calls)
     /\ UNCHANGED panicked

\* txn.isStart, BeginTx succeeded: store the transaction, prepare against it
BeginTxAndPrepare(prepErr) ==
  LET h == Len(dbTx) + 1
      txs == Append(dbTx, "open")
      err == TxAnswer(txs, h, prepErr)
      calls == <<Call("DB.BeginTx", 0, NilErr), Call("Tx.PrepareContext", h, err)>>
  IN /\ StoreTx(h)
     /\ dbTx' = txs
     /\ last' = Result("PrepareQuery",
                       IF err = NilErr THEN Stmt(h) ELSE NoStmt,
                       err, calls, <<>>)
     /\ n' = Counted(calls)
     /\ UNCHANGED panicked

\* PrepareInTx beginning a fresh transaction when the stored one is finished
PrepareInTx_Rebegins(prepErr) ==
  IF dbTx[tx] = "done"
  THEN LET h == Len(dbTx) + 1
           calls == <<Call("DB.BeginTx", 0, NilErr), Call("Tx.PrepareContext", h, prepErr)>>
       IN /\ tx' = h
          /\ dbTx' = Append(dbTx, "open")
          /\ last' = Result("PrepareQuery",
                            IF prepErr = NilErr THEN Stmt(h) ELSE NoStmt,
                            prepErr, calls, <<>>)
          /\ n' = Counted(calls)
          /\ UNCHANGED <<isStart, isEnd, panicked>>
  ELSE LET err == TxAnswer(dbTx, tx, prepErr)
           calls == <<Call("Tx.PrepareContext", tx, err)>>
       IN /\ last' = Result("PrepareQuery",
                            IF err = NilErr THEN Stmt(tx) ELSE NoStmt,
                            err, calls, <<>>)
          /\ n' = Counted(calls)
          /\ UNCHANGED <<node, dbTx, panicked>>

\* txn.tx # nil: prepare against the stored transaction
PrepareInTx(prepErr) ==
  LET err == TxAnswer(dbTx, tx, prepErr)
      calls == <<Call("Tx.PrepareContext", tx, err)>>
  IN /\ last' = Result("PrepareQuery",
                       IF err = NilErr THEN Stmt(tx) ELSE NoStmt,
                       err, calls, <<>>)
     /\ n' = Counted(calls)
     /\ UNCHANGED <<node, dbTx, panicked>>

\* ArgsMismatch returning no error
ArgsMismatch_NoError ==
  /\ last' = Result("PrepareQuery", NoStmt, NilErr, <<>>, <<>>)
  /\ UNCHANGED <<node, dbTx, n, panicked>>

\* isStart false and no transaction
ArgsMismatch ==
  /\ last' = Result("PrepareQuery", NoStmt, ErrTransactionArgsMismatch, <<>>, <<>>)
  /\ UNCHANGED <<node, dbTx, n, panicked>>

\* beginErr and prepErr are what the driver answers BeginTx and
\* PrepareContext with, should PrepareQuery call them.
DoPrepareQuery(beginErr, prepErr) ==
  IF origin = "nil" THEN PrepareDirect(prepErr)
  ELSE IF isStart
       THEN IF beginErr # NilErr THEN BeginTxFailed(beginErr)
                                 ELSE BeginTxAndPrepare(prepErr)
  ELSE IF tx # 0 THEN PrepareInTx(prepErr)
  ELSE ArgsMismatch

\* RollbackNeeded with CommitIfNeeded's guard
RollbackNeeded_OnlyAtEnd == ~(origin = "nil" \/ tx = 0 \/ ~isEnd)

\* the guard of RollbackTransaction: there is a transaction to roll back
RollbackNeeded == ~(origin = "nil" \/ tx = 0)

\* RollbackCall discarding what Rollback answered
RollbackCall_Swallows(outcome) ==
  IF ~RollbackNeeded
  THEN [err |-> NilErr, calls |-> <<>>, txs |-> dbTx]
  ELSE LET err == TxAnswer(dbTx, tx, outcome)
       IN [err |-> NilErr, calls |-> <<Call("Tx.Rollback", tx, err)>>, txs |-> Finish(dbTx, tx)]

\* The value RollbackTransaction returns, the database calls it makes and
\* the transactions after it.
RollbackCall(outcome) ==
  IF ~RollbackNeeded
  THEN [err |-> NilErr, calls |-> <<>>, txs |-> dbTx]
  ELSE LET err == TxAnswer(dbTx, tx, outcome)
       IN [err |-> err, calls |-> <<Call("Tx.Rollback", tx, err)>>, txs |-> Finish(dbTx, tx)]

\* RollbackTransaction dropping the handle it has rolled back
DoRollbackTransaction_ClearsTx(outcome) ==
  LET r == RollbackCall(outcome)
  IN /\ last' = Result("RollbackTransaction", NoStmt, r.err, r.calls, <<>>)
     /\ dbTx' = r.txs
     /\ n' = Counted(r.calls)
     /\ tx' = 0
     /\ UNCHANGED <<isStart, isEnd, panicked>>

DoRollbackTransaction(outcome) ==
  LET r == RollbackCall(outcome)
  IN /\ last' = Result("RollbackTransaction", NoStmt, r.err, r.calls, <<>>)
     /\ dbTx' = r.txs
     /\ n' = Counted(r.calls)
     /\ UNCHANGED <<node, panicked>>

\* CommitNeeded without the isEnd test
CommitNeeded_IgnoresEnd == ~(origin = "nil" \/ tx = 0)

\* the guard of CommitIfNeeded: a transaction is stored and this node is the end
CommitNeeded == ~(origin = "nil" \/ tx = 0 \/ ~isEnd)

\* CommitIfNeeded discarding what Commit answered
DoCommitIfNeeded_SwallowsErr(outcome) ==
  IF ~CommitNeeded
  THEN /\ last' = Result("CommitIfNeeded", NoStmt, NilErr, <<>>, <<>>)
       /\ UNCHANGED <<node, dbTx, n, panicked>>
  ELSE LET err == TxAnswer(dbTx, tx, outcome)
           calls == <<Call("Tx.Commit", tx, err)>>
       IN /\ last' = Result("CommitIfNeeded", NoStmt, NilErr, calls, <<>>)
          /\ dbTx' = Finish(dbTx, tx)
          /\ n' = Counted(calls)
          /\ UNCHANGED <<node, panicked>>

DoCommitIfNeeded(outcome) ==
  IF ~CommitNeeded
  THEN /\ last' = Result("CommitIfNeeded", NoStmt, NilErr, <<>>, <<>>)
       /\ UNCHANGED <<node, dbTx, n, panicked>>
  ELSE LET err == TxAnswer(dbTx, tx, outcome)
           calls == <<Call("Tx.Commit", tx, err)>>
       IN /\ last' = Result("CommitIfNeeded", NoStmt, err, calls, <<>>)
          /\ dbTx' = Finish(dbTx, tx)
          /\ n' = Counted(calls)
          /\ UNCHANGED <<node, panicked>>

\* ReportedErr wrapping the rollback error when the rollback failed
ReportedErr_RollbackFirst(op, err, rollbackErr) ==
  IF rollbackErr # NilErr THEN WrapErr(op, rollbackErr) ELSE WrapErr(op, err)

\* the error RollbackTransactionAndLog returns
ReportedErr(op, err, rollbackErr) == WrapErr(op, err)

\* the entries RollbackTransactionAndLog sends to the logger, in order
LogEntries(op, err, rollbackErr) ==
  (IF rollbackErr # NilErr THEN <<RollbackMsg(op, rollbackErr)>> ELSE <<>>)
  \o <<CauseMsg(op, err)>>

\* ReportEffects logging the cause before the rollback is attempted
ReportEffects_LogFirst(op, err, r) ==
  LogEffects(<<CauseMsg(op, err)>>)
  \o CallEffects(r.calls)
  \o LogEffects(IF r.err # NilErr THEN <<RollbackMsg(op, r.err)>> ELSE <<>>)

\* what RollbackTransactionAndLog does, in program order: the rollback r,
\* then the log entries
ReportEffects(op, err, r) ==
  CallEffects(r.calls) \o LogEffects(LogEntries(op, err, r.err))

DoRollbackTransactionAndLog(op, err, outcome) ==
  LET r == RollbackCall(outcome)
  IN /\ last' = [Result("RollbackTransactionAndLog", NoStmt,
                        ReportedErr(op, err, r.err), r.calls, LogEntries(op, err, r.err))
                   EXCEPT !.events = ReportEffects(op, err, r)]
     /\ dbTx' = r.txs
     /\ n' = Counted(r.calls)
     /\ UNCHANGED <<node, panicked>>

\* ------------------------------------------------- any sequence of calls
\* One more call on the node, made by a caller that follows no protocol.
Free ==
  /\ pc = "idle"
  /\ ~panicked
  /\ steps < MaxOps
  /\ steps' = steps + 1
  /\ UNCHANGED <<origin, chain, gs>>

UnsetEnd == Free /\ DoUnsetEnd

SetEnd == Free /\ DoSetEnd

PrepareQuery == Free /\ \E b \in Outcomes, p \in Outcomes : DoPrepareQuery(b, p)

RollbackTransaction == Free /\ \E o \in Outcomes : DoRollbackTransaction(o)

CommitIfNeeded == Free /\ \E o \in Outcomes : DoCommitIfNeeded(o)

RollbackTransactionAndLog ==
  Free /\ \E op \in OpNames, err \in Causes, o \in Outcomes :
            DoRollbackTransactionAndLog(op, err, o)

Next ==
  \/ UnsetEnd
  \/ SetEnd
  \/ PrepareQuery
  \/ RollbackTransaction
  \/ CommitIfNeeded
  \/ RollbackTransactionAndLog

Spec == Init /\ [][Next]_vars

\* ------------------------------------------------------------ one chain
\* A caller runs chainLen operations on one node obtained from New.  Each
\* operation marks the node (SetEnd at the designated end operation endIdx,
\* UnsetEnd at the others), calls PrepareQuery, executes the statement and
\* calls CommitIfNeeded; the first failure sends the caller to
\* RollbackTransaction or RollbackTransactionAndLog and ends the chain.
ChainInit ==
  /\ origin = "New"
  /\ New
  /\ InitCommon
  /\ chainLen \in 1..MaxChain
  /\ endIdx \in 1..chainLen
  /\ idx = 1
  /\ pc = "mark"
  /\ failedAt = 0
  /\ gs = [g \in Callers |-> IdleCaller]

ChainStep ==
  /\ steps' = steps + 1
  /\ UNCHANGED <<origin, chainLen, endIdx, gs>>

ChainMark ==
  /\ pc = "mark"
  /\ IF idx = endIdx THEN DoSetEnd ELSE DoUnsetEnd
  /\ pc' = "prepare"
  /\ ChainStep
  /\ UNCHANGED <<idx, failedAt>>

ChainPrepare ==
  /\ pc = "prepare"
  /\ \E b \in Outcomes, p \in Outcomes : DoPrepareQuery(b, p)
  /\ IF last'.err = NilErr
     THEN pc' = "exec" /\ UNCHANGED failedAt
     ELSE pc' = "rollback" /\ failedAt' = idx
  /\ ChainStep
  /\ UNCHANGED idx

\* the statement runs outside the node and succeeds or fails
ChainExec ==
  /\ pc = "exec"
  /\ \E ok \in BOOLEAN :
       IF ok THEN pc' = "commit" /\ UNCHANGED failedAt
             ELSE pc' = "rollback" /\ failedAt' = idx
  /\ UNCHANGED <<origin, node, dbTx, n, last, panicked, steps, idx, chainLen, endIdx, gs>>

ChainCommit ==
  /\ pc = "commit"
  /\ \E o \in Outcomes : DoCommitIfNeeded(o)
  /\ IF last'.err # NilErr
     THEN pc' = "rollback" /\ failedAt' = idx /\ UNCHANGED idx
     ELSE IF idx = chainLen
          THEN pc' = "done" /\ UNCHANGED <<idx, failedAt>>
          ELSE pc' = "mark" /\ idx' = idx + 1 /\ UNCHANGED failedAt
  /\ ChainStep

ChainRollback ==
  /\ pc = "rollback"
  /\ \E o \in Outcomes : DoRollbackTransaction(o)
  /\ pc' = "done"
  /\ ChainStep
  /\ UNCHANGED <<idx, failedAt>>

ChainRollbackAndLog ==
  /\ pc = "rollback"
  /\ \E op \in OpNames, err \in Causes, o \in Outcomes :
       DoRollbackTransactionAndLog(op, err, o)
  /\ pc' = "done"
  /\ ChainStep
  /\ UNCHANGED <<idx, failedAt>>

ChainNext ==
  \/ ChainMark
  \/ ChainPrepare
  \/ ChainExec
  \/ ChainCommit
  \/ ChainRollback
  \/ ChainRollbackAndLog

ChainSpec == ChainInit /\ [][ChainNext]_vars

\* ------------------------------------------- unsynchronised PrepareQuery
\* MaxCallers goroutines each call PrepareQuery once on one node obtained
\* from New, with no lock: every read and write of a field and every
\* database call is a step of its own, and the steps of different goroutines
\* interleave.
RaceInit ==
  /\ origin = "New"
  /\ New
  /\ InitCommon
  /\ pc = "idle" /\ idx = 0 /\ chainLen = 0 /\ endIdx = 0 /\ failedAt = 0
  /\ gs = [g \in Callers |-> IdleCaller]

Running(g) == gs[g].pc \notin {"idle", "done"}

\* the call returns, having made the database calls `calls`, the last
\* `fresh` of them in this step
RaceReturn(g, stmt, err, calls, fresh) ==
  /\ last' = Result("PrepareQuery", stmt, err, calls, <<>>)
  /\ n' = Counted(SubSeq(calls, Len(calls) - fresh + 1, Len(calls)))
  /\ steps' = steps + 1

\* if txn.isStart
RaceReadStart(g) ==
  /\ gs[g].pc = "idle"
  /\ gs' = [gs EXCEPT ![g].pc = IF isStart THEN "begin" ELSE "readTx",
                       ![g].overlapped = \E o \in Callers \ {g} : Running(o)]
  /\ UNCHANGED <<origin, node, dbTx, n, last, panicked, steps, chain>>

\* tx, err := db.BeginTx(ctx, nil); if err != nil { return nil, err }
RaceBeginTx(g) ==
  /\ gs[g].pc = "begin"
  /\ \E b \in Outcomes :
       IF b # NilErr
       THEN /\ RaceReturn(g, NoStmt, b, <<Call("DB.BeginTx", 0, b)>>, 1)
            /\ gs' = [gs EXCEPT ![g].pc = "done"]
            /\ UNCHANGED dbTx
       ELSE /\ dbTx' = Append(dbTx, "open")
            /\ gs' = [gs EXCEPT ![g].pc = "setStart", ![g].h = Len(dbTx) + 1]
            /\ n' = Counted(<<Call("DB.BeginTx", 0, NilErr)>>)
            /\ UNCHANGED <<last, steps>>
  /\ UNCHANGED <<origin, node, panicked, chain>>

\* RaceSetStart without the assignment
RaceSetStart_Skips(g) ==
  /\ gs[g].pc = "setStart"
  /\ gs' = [gs EXCEPT ![g].pc = "setTx"]
  /\ UNCHANGED <<origin, node, dbTx, n, last, panicked, steps, chain>>

\* txn.isStart = false
RaceSetStart(g) ==
  /\ gs[g].pc = "setStart"
  /\ isStart' = FALSE
  /\ gs' = [gs EXCEPT ![g].pc = "setTx"]
  /\ UNCHANGED <<origin, tx, isEnd, dbTx, n, last, panicked, steps, chain>>

\* txn.tx = tx
RaceSetTx(g) ==
  /\ gs[g].pc = "setTx"
  /\ tx' = gs[g].h
  /\ gs' = [gs EXCEPT ![g].pc = "prepare"]
  /\ UNCHANGED <<origin, isStart, isEnd, dbTx, n, last, panicked, steps, chain>>

\* stmt, err := tx.PrepareContext(ctx, query); return stmt, err
RacePrepare(g) ==
  /\ gs[g].pc = "prepare"
  /\ \E p \in Outcomes :
       LET h == gs[g].h
           err == TxAnswer(dbTx, h, p)
       IN RaceReturn(g, IF err = NilErr THEN Stmt(h) ELSE NoStmt, err,
                     <<Call("DB.BeginTx", 0, NilErr), Call("Tx.PrepareContext", h, err)>>, 1)
  /\ gs' = [gs EXCEPT ![g].pc = "done"]
  /\ UNCHANGED <<origin, node, dbTx, panicked, chain>>

\* if txn.tx != nil ... else return nil, ErrTransactionArgsMismatch
RaceReadTx(g) ==
  /\ gs[g].pc = "readTx"
  /\ IF tx # 0
     THEN /\ gs' = [gs EXCEPT ![g].pc = "prepareStored"]
          /\ UNCHANGED <<n, last, steps>>
     ELSE /\ gs' = [gs EXCEPT ![g].pc = "done"]
          /\ last' = Result("PrepareQuery", NoStmt, ErrTransactionArgsMismatch, <<>>, <<>>)
          /\ steps' = steps + 1
          /\ UNCHANGED n
  /\ UNCHANGED <<origin, node, dbTx, panicked, chain>>

\* stmt, err := txn.tx.PrepareContext(ctx, query); return stmt, err
RacePrepareStored(g) ==
  /\ gs[g].pc = "prepareStored"
  /\ \E p \in Outcomes :
       LET err == TxAnswer(dbTx, tx, p)
       IN RaceReturn(g, IF err = NilErr THEN Stmt(tx) ELSE NoStmt, err,
                     <<Call("Tx.PrepareContext", tx, err)>>, 1)
  /\ gs' = [gs EXCEPT ![g].pc = "done"]
  /\ UNCHANGED <<origin, node, dbTx, panicked, chain>>

RaceNext ==
  \E g \in Callers :
    \/ RaceReadStart(g)
    \/ RaceBeginTx(g)
    \/ RaceSetStart(g)
    \/ RaceSetTx(g)
    \/ RacePrepare(g)
    \/ RaceReadTx(g)
    \/ RacePrepareStored(g)

RaceSpec == RaceInit /\ [][RaceNext]_vars

\* ------------------------------------------------------------ properties

\* C1: on a node created by New and used sequentially BeginTx succeeds at
\* most once.  A PrepareQuery made while isStart holds, against a database
\* that answers BeginTx and PrepareContext with success, begins exactly one
\* transaction, prepares against it and returns that statement; every
\* PrepareQuery made once a transaction is stored prepares against that same
\* transaction and does not call BeginTx.
C1_BeginAtMostOnce ==
  [][origin = "New" =>
       /\ Len(dbTx') <= 1
       /\ (Free /\ isStart /\ DoPrepareQuery(NilErr, NilErr) =>
             /\ Len(dbTx) = 0 /\ Len(dbTx') = 1 /\ tx' = 1
             /\ n'.begin = n.begin + 1
             /\ last'.calls = <<Call("DB.BeginTx", 0, NilErr),
                                Call("Tx.PrepareContext", 1, NilErr)>>
             /\ last'.stmt = Stmt(1) /\ last'.err = NilErr)
       /\ (PrepareQuery /\ tx # 0 =>
             /\ tx' = tx /\ Len(dbTx') = Len(dbTx)
             /\ n'.begin = n.begin
             /\ last'.calls = <<Call("Tx.PrepareContext", tx, last'.err)>>)]_vars

\* a second PrepareQuery has prepared against the transaction the first began
C1_Witness ==
  /\ origin = "New" /\ last.op = "PrepareQuery"
  /\ n.begin = 1 /\ n.txPrepare >= 2 /\ last.stmt = Stmt(tx)

\* C2: in every state reachable from New the transaction handle is stored
\* if and only if isStart is false, if and only if a BeginTx call has
\* succeeded.
C2_TxIffStarted ==
  origin = "New" =>
    /\ (tx # 0) <=> ~isStart
    /\ (tx # 0) <=> (Len(dbTx) >= 1)

\* a failed begin, then a successful begin whose statement preparation failed
C2_Witness ==
  /\ origin = "New" /\ tx # 0 /\ ~isStart
  /\ n.begin = 2 /\ last.op = "PrepareQuery" /\ last.err # NilErr

\* C3: Commit is invoked on the transaction only by a CommitIfNeeded call
\* made while a transaction is stored and isEnd is true; a CommitIfNeeded
\* call made while isEnd is false or no transaction is stored returns no
\* error and makes no database call.
C3_CommitOnlyAtEnd ==
  [][/\ (n'.commit # n.commit =>
           CommitIfNeeded /\ origin # "nil" /\ tx # 0 /\ isEnd
           /\ last'.calls = <<Call("Tx.Commit", tx, last'.err)>>)
     /\ (CommitIfNeeded /\ (~isEnd \/ tx = 0) =>
           /\ last'.err = NilErr /\ last'.calls = <<>>
           /\ n' = n /\ dbTx' = dbTx)]_vars

\* after a commit and UnsetEnd, CommitIfNeeded has done nothing
C3_Witness ==
  /\ last.op = "CommitIfNeeded" /\ last.calls = <<>>
  /\ tx # 0 /\ ~isEnd /\ n.commit = 1

C5_FailureRollsBack ==
  [][/\ (pc' = "done" /\ failedAt' # 0 /\ failedAt' < endIdx' =>
           /\ ~isEnd'
           /\ n'.commit = 0
           /\ (tx' # 0 =>
                 /\ n'.rollback = 1
                 /\ Len(last'.calls) = 1
                 /\ last'.calls[1].fn = "Tx.Rollback" /\ last'.calls[1].h = tx'
                 /\ dbTx[tx'] = "open" /\ dbTx'[tx'] = "done"))
     /\ (n'.commit > n.commit =>
           /\ pc = "commit" /\ idx = endIdx /\ failedAt = 0
           /\ (endIdx = chainLen => idx = chainLen /\ pc' \in {"done", "rollback"}))]_vars

\* two statements prepared in one transaction, the second operation failed
\* before the end operation, the caller rolled back and reported
C5_Witness ==
  /\ pc = "done" /\ failedAt = 2 /\ endIdx = 3
  /\ tx # 0 /\ n.txPrepare = 2 /\ n.rollback = 1 /\ n.commit = 0
  /\ last.op = "RollbackTransactionAndLog"

\* C6: in a successful chain where isEnd is true only at the designated end
\* operation and every operation calls CommitIfNeeded after its PrepareQuery,
\* Commit is invoked exactly once over the whole chain; the CommitIfNeeded
\* calls made while isEnd is false make no database call and return no error.
C6_CommitExactlyOnce ==
  /\ (pc = "done" /\ failedAt = 0 => n.commit = 1 /\ idx = endIdx)
  /\ (idx < endIdx => n.commit = 0)
  /\ (last.op = "CommitIfNeeded" /\ ~isEnd => last.calls = <<>> /\ last.err = NilErr)

\* a chain of three operations has finished successfully
C6_Witness ==
  /\ pc = "done" /\ failedAt = 0 /\ chainLen = 3
  /\ n.txPrepare = 3 /\ n.commit = 1 /\ last.op = "CommitIfNeeded"

\* C7: when PrepareQuery runs with isStart true and BeginTx fails, the begin
\* error is returned unchanged, no statement is prepared and the node is
\* left as it was; a PrepareQuery on a node with isStart true always calls
\* BeginTx, so the next call attempts it again.
C7_BeginFailureLeavesNode ==
  [][/\ \A b \in DriverErrs :
          (Free /\ origin # "nil" /\ isStart /\ \E p \in Outcomes : DoPrepareQuery(b, p)) =>
            /\ last'.err = b /\ last'.stmt = NoStmt
            /\ last'.calls = <<Call("DB.BeginTx", 0, b)>>
            /\ n'.txPrepare = n.txPrepare /\ n'.dbPrepare = n.dbPrepare
            /\ isStart' /\ tx' = 0 /\ isEnd' = isEnd
            /\ dbTx' = dbTx
     /\ (PrepareQuery /\ origin # "nil" /\ isStart =>
           Head(last'.calls).fn = "DB.BeginTx" /\ n'.begin = n.begin + 1)]_vars

\* BeginTx has failed twice in a row on the same node
C7_Witness ==
  /\ origin = "New" /\ isStart /\ tx = 0 /\ n.begin = 2
  /\ last.op = "PrepareQuery" /\ last.err \in DriverErrs

\* C8: when PrepareQuery begins a transaction but the statement preparation
\* fails, the preparation error is returned, isStart is false and the
\* transaction is stored and still open, PrepareQuery has invoked neither
\* Rollback nor Commit, and a RollbackTransaction called next invokes
\* Rollback on that transaction.
C8_PrepareFailureKeepsTx ==
  [][/\ \A p \in DriverErrs :
          (Free /\ origin # "nil" /\ isStart /\ DoPrepareQuery(NilErr, p)) =>
            /\ last'.err = p /\ last'.stmt = NoStmt
            /\ ~isStart' /\ tx' = Len(dbTx) + 1 /\ isEnd' = isEnd
            /\ Len(dbTx') = tx' /\ dbTx'[tx'] = "open"
            /\ n'.rollback = n.rollback /\ n'.commit = n.commit
            /\ last'.calls = <<Call("DB.BeginTx", 0, NilErr),
                               Call("Tx.PrepareContext", tx', p)>>
     /\ (RollbackTransaction /\ last.op = "PrepareQuery" /\ Len(last.calls) = 2
           /\ last.err # NilErr =>
           /\ tx = last.calls[2].h
           /\ last'.calls = <<Call("Tx.Rollback", tx, last'.err)>>
           /\ n'.rollback = n.rollback + 1
           /\ dbTx[tx] = "open" /\ dbTx'[tx] = "done")]_vars

\* a transaction was begun and its first statement could not be prepared
C8_Witness ==
  /\ last.op = "PrepareQuery" /\ Len(last.calls) = 2 /\ last.err \in DriverErrs
  /\ ~isStart /\ tx # 0 /\ dbTx[tx] = "open" /\ n.rollback = 0

\* C9: PrepareQuery on a non-nil node with isStart false and no transaction
\* returns ErrTransactionArgsMismatch and no statement, makes no database
\* call and leaves the node unchanged.
C9_ArgsMismatch ==
  [][PrepareQuery /\ origin # "nil" /\ ~isStart /\ tx = 0 =>
       /\ last'.err = ErrTransactionArgsMismatch /\ last'.stmt = NoStmt
       /\ last'.calls = <<>>
       /\ n' = n /\ dbTx' = dbTx
       /\ node' = node]_vars

\* PrepareQuery has answered a zero-value node with the mismatch error
C9_Witness ==
  /\ origin = "zero" /\ last.op = "PrepareQuery" /\ steps >= 2
  /\ ~isStart /\ tx = 0 /\ n.begin = 0

\* C10: RollbackTransactionAndLog, in every node state and for every
\* rollback outcome, returns an error that wraps the cause with the
\* operation name and never the rollback error; the cause is always logged,
\* and an entry with the rollback error is logged exactly when the rollback
\* failed.
C10_ReportWrapsCause ==
  [][\A op \in OpNames, err \in Causes, o \in Outcomes :
       (Free /\ DoRollbackTransactionAndLog(op, err, o)) =>
         LET rb == IF origin = "nil" \/ tx = 0 THEN NilErr
                   ELSE IF dbTx[tx] = "done" THEN ErrTxDone ELSE o
             logs == last'.logs
         IN /\ last'.err.msg = <<op, ": ">> \o err.msg
            /\ last'.err.unwrap = err.msg
            /\ (rb # NilErr /\ rb # err => last'.err.unwrap # rb.msg)
            /\ \E i \in 1..Len(logs) : logs[i] = <<op, ": ">> \o err.msg
            /\ Len(logs) = (IF rb # NilErr THEN 2 ELSE 1)
            /\ (rb # NilErr =>
                  \E i \in 1..Len(logs) :
                    logs[i] = <<op, ": rollback transaction: ">> \o rb.msg)]_vars

\* the rollback failed with an error other than the cause
C10_Witness ==
  /\ last.op = "RollbackTransactionAndLog" /\ Len(last.logs) = 2
  /\ tx # 0 /\ last.calls[1].err.msg # last.err.unwrap

\* C11: RollbackTransaction on a node with a stored transaction invokes
\* Rollback on that transaction and returns what it answered, whether isEnd
\* is true or false; on a node with no transaction it returns no error,
\* makes no database call and leaves the node unchanged, each time it is
\* called.
C11_RollbackAlwaysRoutes ==
  [][\A o \in Outcomes :
       (Free /\ DoRollbackTransaction(o)) =>
         IF origin # "nil" /\ tx # 0
         THEN /\ Len(last'.calls) = 1
              /\ last'.calls[1].fn = "Tx.Rollback" /\ last'.calls[1].h = tx
              /\ last'.calls[1].err = (IF dbTx[tx] = "done" THEN ErrTxDone ELSE o)
              /\ last'.err = last'.calls[1].err
              /\ n'.rollback = n.rollback + 1
              /\ node' = node
         ELSE /\ last'.err = NilErr /\ last'.calls = <<>>
              /\ n' = n /\ dbTx' = dbTx
              /\ node' = node]_vars

\* Rollback has failed on the stored transaction of a node that is not the end
C11_Witness ==
  /\ last.op = "RollbackTransaction" /\ tx # 0 /\ ~isEnd
  /\ last.err \in DriverErrs /\ n.rollback = 1 /\ n.commit = 0

\* C12: in RollbackTransactionAndLog the rollback attempt precedes every log
\* entry, and the entries are the rollback-failure entry (only if the
\* rollback failed) followed by the cause entry: one entry when the rollback
\* succeeded or was a no-op, two when it failed.
C12_RollbackThenLogs ==
  [][\A op \in OpNames, err \in Causes, o \in Outcomes :
       (Free /\ DoRollbackTransactionAndLog(op, err, o)) =>
         LET attempted == origin # "nil" /\ tx # 0
             rb == IF ~attempted THEN NilErr
                   ELSE IF dbTx[tx] = "done" THEN ErrTxDone ELSE o
             ev == last'.events
             k == IF attempted THEN 1 ELSE 0
         IN /\ Len(ev) = k + (IF rb # NilErr THEN 2 ELSE 1)
            /\ (attempted => ev[1] = Effect("call", "Tx.Rollback", <<>>))
            /\ \A i \in 1..Len(ev) : i > k => ev[i].kind = "log"
            /\ (rb # NilErr =>
                  ev[k + 1].text = <<op, ": rollback transaction: ">> \o rb.msg)
            /\ ev[Len(ev)].text = <<op, ": ">> \o err.msg
            /\ last'.logs = [i \in 1..(Len(ev) - k) |-> ev[k + i].text]]_vars

\* a failed rollback was followed by its log entry and then the cause's
C12_Witness ==
  /\ last.op = "RollbackTransactionAndLog" /\ Len(last.events) = 3
  /\ last.events[1].kind = "call"
  /\ last.events[2].kind = "log" /\ last.events[3].kind = "log"

\* C13: SetEnd and UnsetEnd change only isEnd and make no database call;
\* CommitIfNeeded, RollbackTransaction and RollbackTransactionAndLog leave
\* isStart, tx and isEnd unchanged, so the node's fields change only in
\* PrepareQuery, SetEnd and UnsetEnd.
C13_Frame ==
  [][/\ (SetEnd \/ UnsetEnd =>
           /\ isStart' = isStart /\ tx' = tx
           /\ n' = n /\ dbTx' = dbTx /\ last'.events = <<>>
           /\ (origin # "nil" => (isEnd' <=> SetEnd)))
     /\ (CommitIfNeeded \/ RollbackTransaction \/ RollbackTransactionAndLog =>
           node' = node)
     /\ (node' # node => PrepareQuery \/ SetEnd \/ UnsetEnd)]_vars

\* the end node has committed and then rolled back and reported; the
\* finished transaction is still stored
C13_Witness ==
  /\ last.op = "RollbackTransactionAndLog" /\ last.calls # <<>>
  /\ tx # 0 /\ ~isStart /\ isEnd /\ n.commit = 1

\* C14 as stated: once Commit or Rollback has been invoked on the stored
\* transaction, no later operation on the node invokes Commit, Rollback or
\* statement preparation on that handle.
C14_NoCallOnFinished ==
  [][\A i \in 1..Len(last'.calls) :
       LET c == last'.calls[i]
       IN c.h \in DOMAIN dbTx => dbTx[c.h] # "done"]_vars

\* C14, amended: the node never clears the handle, so once Commit or
\* Rollback has been invoked on the stored transaction a later CommitIfNeeded
\* with isEnd true, RollbackTransaction, RollbackTransactionAndLog or
\* PrepareQuery invokes Commit, Rollback or statement preparation on that
\* same handle again; the call is answered with ErrTxDone, the transaction
\* stays finished, and the node returns that error with no statement
\* (RollbackTransactionAndLog logs it).
C14_FinishedAnswersTxDone ==
  [][origin # "nil" /\ tx # 0 /\ dbTx[tx] = "done" =>
       /\ tx' = tx /\ dbTx' = dbTx
       /\ (PrepareQuery =>
             /\ last'.calls = <<Call("Tx.PrepareContext", tx, ErrTxDone)>>
             /\ last'.err = ErrTxDone /\ last'.stmt = NoStmt)
       /\ (RollbackTransaction =>
             /\ last'.calls = <<Call("Tx.Rollback", tx, ErrTxDone)>>
             /\ last'.err = ErrTxDone)
       /\ (CommitIfNeeded /\ isEnd =>
             /\ last'.calls = <<Call("Tx.Commit", tx, ErrTxDone)>>
             /\ last'.err = ErrTxDone)
       /\ (RollbackTransactionAndLog =>
             /\ last'.calls = <<Call("Tx.Rollback", tx, ErrTxDone)>>
             /\ Len(last'.logs) = 2
             /\ SubSeq(last'.logs[1], 3, Len(last'.logs[1])) = ErrTxDone.msg)]_vars

\* a second CommitIfNeeded at the end node has reached the committed transaction
C14_Witness ==
  /\ last.op = "CommitIfNeeded" /\ last.err = ErrTxDone
  /\ n.commit = 2 /\ n.rollback = 0 /\ tx # 0 /\ isEnd

\* C16: a node obtained from New and used sequentially never reaches the
\* state isStart false with no transaction, whatever mix of begin and prepare
\* failures, SetEnd, UnsetEnd, CommitIfNeeded and RollbackTransaction calls it
\* sees, and PrepareQuery never returns ErrTransactionArgsMismatch for it; the
\* zero-value node, not built by New, is in that state.
C16_NoMismatchFromNew ==
  /\ (origin = "New" =>
        /\ ~(~isStart /\ tx = 0)
        /\ (last.op = "PrepareQuery" => last.err # ErrTransactionArgsMismatch))
  /\ (origin = "zero" => ~isStart /\ tx = 0)

\* after a failed begin, a begin and a rollback, PrepareQuery has answered
\* with the finished transaction's error, not with the mismatch error
C16_Witness ==
  /\ origin = "New" /\ last.op = "PrepareQuery" /\ last.err = ErrTxDone
  /\ n.begin = 2 /\ n.rollback = 1 /\ tx # 0

\* C17: the node's lifecycle is monotone: once isStart is false it stays
\* false, and once a transaction is stored it is neither replaced nor
\* cleared, so every statement PrepareQuery returns after the begin was
\* prepared on that same transaction.
C17_Monotone ==
  [][origin # "nil" =>
       /\ (~isStart => ~isStart')
       /\ (tx # 0 => tx' = tx)
       /\ (PrepareQuery /\ last'.stmt.ok =>
             /\ last'.stmt.tx = tx'
             /\ (tx # 0 => last'.stmt.tx = tx))]_vars

\* a third statement has been prepared on the transaction the first call began
C17_Witness ==
  /\ ~isStart /\ tx = 1 /\ last.op = "PrepareQuery" /\ last.stmt = Stmt(1)
  /\ n.txPrepare >= 3 /\ n.begin = 1

\* every call has returned
Returned == \A g \in Callers : gs[g].pc = "done"

\* no call began while another was running
Serialized == \A g \in Callers : ~gs[g].overlapped

\* C15 as stated: when PrepareQuery calls on one fresh node interleave
\* without synchronization, at most one transaction is begun and every begun
\* handle remains stored in the node.
C15_RaceBeginsOnce ==
  /\ Len(dbTx) <= 1
  /\ (Returned => \A h \in 1..Len(dbTx) : tx = h)

\* C15, amended: when PrepareQuery calls on one fresh node interleave
\* without synchronization, each call begins at most one transaction, so as
\* many as there are calls can be begun, and the node keeps only one begun
\* handle, the others being overwritten and left without a path to commit or
\* rollback; at most one transaction is begun and every begun handle remains
\* stored when the calls do not overlap.
C15_RaceBeginsOncePerCall ==
  /\ n.begin <= Cardinality({g \in Callers : gs[g].pc # "idle"})
  /\ Len(dbTx) <= Cardinality({g \in Callers : gs[g].h # 0})
  /\ (Returned /\ Len(dbTx) >= 1 => tx \in 1..Len(dbTx))
  /\ (Serialized =>
        /\ Len(dbTx) <= 1
        /\ (Returned => \A h \in 1..Len(dbTx) : tx = h))

\* two overlapping calls have each begun a transaction; the node holds one
\* handle and the other is stored nowhere
C15_Witness ==
  /\ Returned /\ ~Serialized /\ Len(dbTx) = 2
  /\ \E h \in 1..Len(dbTx) : tx # h /\ dbTx[h] = "open"

TypeOK ==
  /\ origin \in {"New", "nil", "zero"}
  /\ isStart \in BOOLEAN /\ isEnd \in BOOLEAN
  /\ tx \in 0..Len(dbTx)
====
